---- MODULE Spec2Model ----
(***************************************************************************)
(* Model of src/main.js of tile-downloader: the pure helpers               *)
(* tileRangeForExtent and toArcGISNames, and the click handler             *)
(* downloadAllLevelsForArcGIS with its per-level p-limit pool, its tile    *)
(* tasks (one step per await) and its per-level convert.sh.                *)
(***************************************************************************)
EXTENDS Integers, Sequences, FiniteSets, TLC

(***************************************************************************)
(* Bounds of the model.                                                    *)
(***************************************************************************)
\* how many times the download button is clicked in one behaviour
MaxRuns == 2
\* xmax of the area of interest in Spec: with xmin = 1 and tile widths 4 and 2
\* the area covers one tile of the first level and two tiles of the second
ExtentX == 2
\* how many awaited operations fail (reject, or answer not ok) in one behaviour
MaxFaults == 1
\* xmax of the area of interest in SpecPool: 11 tiles at the finest level
PoolExtentX == 21

(***************************************************************************)
(* Program constants and inputs.                                           *)
(***************************************************************************)
\* pLimit(10)
Concurrency == 10

\* metadata.tileInfo (spec.json): integer resolutions, square tiles
tileInfo ==
    [ origin |-> [x |-> 0, y |-> 0],
      size   |-> <<2, 2>>,
      lods   |-> << [level |-> 0, resolution |-> 2],
                    [level |-> 1, resolution |-> 1] >> ]

lods == tileInfo.lods

\* vectorSource.getExtent(): <<xmin, ymin, xmax, ymax>>
Extents == { <<1, -1, ExtentX, -1>> }

PoolExtents == { <<0, -1, PoolExtentX, -1>> }

(***************************************************************************)
(* tileRangeForExtent (Math.floor of a quotient with a positive divisor is *)
(* \div on integers).                                                      *)
(***************************************************************************)
\* the grid the page builds from metadata.tileInfo: getOrigin(), getTileSize(z)
tileGrid == [ origin   |-> << tileInfo.origin.x, tileInfo.origin.y >>,
              tileSize |-> tileInfo.size[1] ]

\* mutant: rows are counted upwards from the origin like columns
tileRangeRowsNotFlipped(grid, extent, resolution) ==
    LET tileWidth == resolution * grid.tileSize
    IN  [ minX |-> (extent[1] - grid.origin[1]) \div tileWidth,
          maxX |-> (extent[3] - grid.origin[1]) \div tileWidth,
          minY |-> (extent[2] - grid.origin[2]) \div tileWidth,
          maxY |-> (extent[4] - grid.origin[2]) \div tileWidth ]

\* mutant: the last column and row are rounded up instead of down
tileRangeCeilMax(grid, extent, resolution) ==
    LET tileWidth == resolution * grid.tileSize
    IN  [ minX |-> (extent[1] - grid.origin[1]) \div tileWidth,
          maxX |-> -((grid.origin[1] - extent[3]) \div tileWidth),
          minY |-> (grid.origin[2] - extent[4]) \div tileWidth,
          maxY |-> -((extent[2] - grid.origin[2]) \div tileWidth) ]

\* the body of tileRangeForExtent, for the grid it reads
tileRangeOnGrid(grid, extent, resolution) ==
    LET xmin == extent[1]
        ymin == extent[2]
        xmax == extent[3]
        ymax == extent[4]
        originX == grid.origin[1]
        originY == grid.origin[2]
        tileSize == grid.tileSize
    IN  [ minX |-> (xmin - originX) \div (resolution * tileSize),
          maxX |-> (xmax - originX) \div (resolution * tileSize),
          minY |-> (originY - ymax) \div (resolution * tileSize),
          maxY |-> (originY - ymin) \div (resolution * tileSize) ]

tileRangeForExtent(extent, resolution) == tileRangeOnGrid(tileGrid, extent, resolution)

(***************************************************************************)
(* Strings: a string under construction is a sequence of characters.       *)
(***************************************************************************)
LowerDigits == << "0", "1", "2", "3", "4", "5", "6", "7", "8", "9",
                  "a", "b", "c", "d", "e", "f" >>

RECURSIVE NatToString(_, _)
NatToString(n, radix) ==
    IF n < radix THEN << LowerDigits[n + 1] >>
    ELSE NatToString(n \div radix, radix) \o << LowerDigits[(n % radix) + 1] >>

\* Number.prototype.toString(radix): a minus sign, then the magnitude
NumberToString(n, radix) ==
    IF n < 0 THEN << "-" >> \o NatToString(-n, radix) ELSE NatToString(n, radix)

\* String.prototype.padStart(targetLength, "0"): never truncates
PadStart(s, targetLength) ==
    IF Len(s) >= targetLength THEN s
    ELSE [i \in 1..(targetLength - Len(s)) |-> "0"] \o s

UpperChar(c) ==
    CASE c = "a" -> "A" [] c = "b" -> "B" [] c = "c" -> "C"
      [] c = "d" -> "D" [] c = "e" -> "E" [] c = "f" -> "F"
      [] OTHER -> c

\* String.prototype.toUpperCase
ToUpperCase(s) == [i \in 1..Len(s) |-> UpperChar(s[i])]

RECURSIVE Join(_)
Join(s) == IF s = << >> THEN "" ELSE Head(s) \o Join(Tail(s))

toArcGISNames(z, x, y) ==
    [ L |-> << "L" >> \o PadStart(NumberToString(z, 10), 2),
      R |-> << "R" >> \o ToUpperCase(PadStart(NumberToString(y, 16), 8)),
      C |-> << "C" >> \o ToUpperCase(PadStart(NumberToString(x, 16), 8)) ]

(***************************************************************************)
(* The tiles of a level and the files of a tile.                           *)
(***************************************************************************)
LodIdx == 1..Len(lods)

\* the (x, y) pairs the nested loops enumerate for lods[i]
LevelCoords(bbox, i) ==
    LET r == tileRangeForExtent(bbox, lods[i].resolution)
    IN  { <<x, y>> : x \in r.minX..r.maxX, y \in r.minY..r.maxY }

\* a tile task is identified by the lod index and the (x, y) of its closure
LevelTiles(bbox, i) == { <<i, c[1], c[2]>> : c \in LevelCoords(bbox, i) }

AllTiles(bbox) == UNION { LevelTiles(bbox, i) : i \in LodIdx }

ImageExts == { "png", "jpeg" }
WorldExts == { "pgw", "jgw" }

\* "L" + level.toString().padStart(2, "0"), under _alllayers
LdirName(i) ==
    "_alllayers/" \o Join(<< "L" >> \o PadStart(NumberToString(lods[i].level, 10), 2))

\* `${R}${C}.${ext}` inside Ldir
FileName(t, ext) ==
    LET n == toArcGISNames(lods[t[1]].level, t[2], t[3])
    IN  LdirName(t[1]) \o "/" \o Join(n.R) \o Join(n.C) \o "." \o ext

ScriptPath(i) == LdirName(i) \o "/convert.sh"

AllPaths(bbox) ==
    { FileName(t, e) : t \in AllTiles(bbox), e \in ImageExts \cup WorldExts }
      \cup { ScriptPath(i) : i \in LodIdx }

(***************************************************************************)
(* State.                                                                  *)
(***************************************************************************)
VARIABLES
    names,                \* <<tile, ext>> -> filePath(ext) of the tile, tabulated
    hasPicker,            \* window.showDirectoryPicker is defined
    bbox,                 \* vectorSource.getExtent()
    env,                  \* the profile every tile meets (SpecPool); unused in Spec
    clicks,               \* clicks on the button still to come
    faultsLeft,           \* failing operations still to come
    run,                  \* runs started so far
    pc,                   \* where downloadAllLevelsForArcGIS is suspended
    lodIdx,               \* index in metadata.tileInfo.lods of the for loop
    threwAt,              \* the await whose rejection left the handler
    dirs,                 \* directories of the chosen directory
    disk,                 \* path -> "none" | "empty" | "full"
    task,                 \* tile -> task record (closure of one limit(...) call)
    pool,                 \* lod index -> the level's p-limit instance
    progress,             \* "none" until totalTiles / downloadedTiles exist
    totalTiles,
    downloadedTiles,
    totalLevelTiles,      \* lod index -> totalLevelTiles of that iteration
    downloadedLevelTiles, \* lod index -> downloadedLevelTiles of that iteration
    requests,             \* fetch(url) calls of the current run
    runStartDisk,         \* disk when the current run was started
    calc                  \* the last direct call of a pure helper and its result

vars == << names, hasPicker, bbox, env, clicks, faultsLeft, run, pc, lodIdx, threwAt, dirs, disk,
           task, pool, progress, totalTiles, downloadedTiles, totalLevelTiles,
           downloadedLevelTiles, requests, runStartDisk, calc >>

\* no pure helper has been called directly
NoCall == [ op |-> "none" ]

TaskPcs == { "unsubmitted", "queued", "probePng", "probeJpeg", "fetch",
             "imgHandle", "imgWritable", "pipeTo",
             "wfHandle", "wfWritable", "wfWrite", "wfClose", "end" }

\* the closure of one tile task before limit(...) is called for it
NewTask ==
    [ pc            |-> "unsubmitted",
      status        |-> "pending",      \* of the promise limit(...) returned
      pngExists     |-> FALSE,
      jpegExists    |-> FALSE,
      imageFileType |-> "null",
      resp          |-> "none",         \* "none" | "ok" | "notok"
      failedAt      |-> "none",         \* the await that threw into catch
      fetched       |-> FALSE,          \* called fetch(url)
      counted       |-> FALSE ]         \* reached downloadedTiles++

\* pending: the deferred checks of enqueue that have not run yet
NewPool == [ activeCount |-> 0, queue |-> << >>, pending |-> 0 ]

EmptyDisk(b) == [ p \in AllPaths(b) |-> "none" ]

\* responses of the tile server: the Content-Type header of an ok response
ContentTypes == { "image/png", "image/jpeg", "null" }
FetchOutcomes == { "reject", "notok" } \cup ContentTypes

\* SpecPool: one outcome for every fetch, and the file operation that fails
Profiles ==
    { [ fetch |-> "image/png",  failAt |-> "none" ],
      [ fetch |-> "image/jpeg", failAt |-> "pipeTo" ],
      [ fetch |-> "notok",      failAt |-> "none" ],
      [ fetch |-> "reject",     failAt |-> "none" ] }

(***************************************************************************)
(* The body of a tile task, one operator per await.  Each takes the tile,  *)
(* its closure and the disk, and yields the closure and the disk after the *)
(* awaited operation settled.                                              *)
(***************************************************************************)
\* mutant: the error leaves the task (no try/catch around the body)
CatchRethrow(tk, at) ==
    [tk EXCEPT !.pc = "end", !.status = "rejected", !.failedAt = at]

\* catch (err) { console.warn("Missing tile:", url); }
Catch(tk, at) ==
    [tk EXCEPT !.pc = "end", !.status = "fulfilled", !.failedAt = at]

\* FileSystemDirectoryHandle.getFileHandle(name, { create: true })
GetFileHandleCreate(d, path) ==
    IF d[path] = "none" THEN [d EXCEPT ![path] = "empty"] ELSE d

\* mutant: only the png probe decides
NeedsFetchPngOnly(pngExists, jpegExists) == ~pngExists

\* if (!pngExists && !jpegExists)
NeedsFetch(pngExists, jpegExists) == ~pngExists /\ ~jpegExists

\* let imageFileType = pngExists ? "png" : jpegExists ? "jpeg" : null
ProbedFileType(pngExists, jpegExists) ==
    IF pngExists THEN "png" ELSE IF jpegExists THEN "jpeg" ELSE "null"

\* filePath(imageFileType === "png" ? "pgw" : "jgw")
WorldExt(imageFileType) == IF imageFileType = "png" THEN "pgw" ELSE "jgw"

FilePath(t, ext) == names[<< t, ext >>]

\* the task starts: runs up to the first await
StartTask(tk) == [tk EXCEPT !.pc = "probePng"]

ProbePngStep(t, tk, d) ==
    [ tk |-> [tk EXCEPT !.pngExists = (d[FilePath(t, "png")] # "none"),
                        !.pc = "probeJpeg"],
      d  |-> d ]

\* mutant: the jpeg probe looks for another name and never finds the file
ProbeJpegStepWrongName(t, tk, d) ==
    [ tk |-> [tk EXCEPT
                !.jpegExists = FALSE,
                !.imageFileType = ProbedFileType(tk.pngExists, FALSE),
                !.fetched = NeedsFetch(tk.pngExists, FALSE),
                !.pc = IF NeedsFetch(tk.pngExists, FALSE) THEN "fetch" ELSE "wfHandle"],
      d  |-> d ]

ProbeJpegStep(t, tk, d) ==
    LET jpegExists == d[FilePath(t, "jpeg")] # "none"
    IN  [ tk |-> [tk EXCEPT
                    !.jpegExists = jpegExists,
                    !.imageFileType = ProbedFileType(tk.pngExists, jpegExists),
                    !.fetched = NeedsFetch(tk.pngExists, jpegExists),
                    !.pc = IF NeedsFetch(tk.pngExists, jpegExists)
                           THEN "fetch" ELSE "wfHandle"],
          d  |-> d ]

\* o \in FetchOutcomes
FetchStep(t, tk, d, o) ==
    [ tk |-> IF o = "reject" THEN Catch(tk, "fetch")
             ELSE IF o = "notok" THEN [tk EXCEPT !.resp = "notok", !.pc = "wfHandle"]
             ELSE [tk EXCEPT !.resp = "ok",
                             !.imageFileType =
                                 IF o = "image/png" THEN "png" ELSE "jpeg",
                             !.pc = "imgHandle"],
      d  |-> d ]

ImgHandleStep(t, tk, d, ok) ==
    IF ok THEN [ tk |-> [tk EXCEPT !.pc = "imgWritable"],
                 d  |-> GetFileHandleCreate(d, FilePath(t, tk.imageFileType)) ]
    ELSE [ tk |-> Catch(tk, "imgHandle"), d |-> d ]

ImgWritableStep(t, tk, d, ok) ==
    IF ok THEN [ tk |-> [tk EXCEPT !.pc = "pipeTo"], d |-> d ]
    ELSE [ tk |-> Catch(tk, "imgWritable"), d |-> d ]

\* resp.body.pipeTo(writable): the data is committed when the stream closes;
\* when the body errors the writable is aborted and the file stays as created
PipeToStep(t, tk, d, ok) ==
    IF ok THEN [ tk |-> [tk EXCEPT !.pc = "wfHandle"],
                 d  |-> [d EXCEPT ![FilePath(t, tk.imageFileType)] = "full"] ]
    ELSE [ tk |-> Catch(tk, "pipeTo"), d |-> d ]

WfHandleStep(t, tk, d, ok) ==
    IF ok THEN [ tk |-> [tk EXCEPT !.pc = "wfWritable"],
                 d  |-> GetFileHandleCreate(d, FilePath(t, WorldExt(tk.imageFileType))) ]
    ELSE [ tk |-> Catch(tk, "wfHandle"), d |-> d ]

WfWritableStep(t, tk, d, ok) ==
    IF ok THEN [ tk |-> [tk EXCEPT !.pc = "wfWrite"], d |-> d ]
    ELSE [ tk |-> Catch(tk, "wfWritable"), d |-> d ]

WfWriteStep(t, tk, d, ok) ==
    IF ok THEN [ tk |-> [tk EXCEPT !.pc = "wfClose"], d |-> d ]
    ELSE [ tk |-> Catch(tk, "wfWrite"), d |-> d ]

\* worldFileWritable.close() commits; then downloadedTiles++ and the task ends
WfCloseStep(t, tk, d, ok) ==
    IF ok THEN [ tk |-> [tk EXCEPT !.pc = "end", !.status = "fulfilled",
                                   !.counted = TRUE],
                 d  |-> [d EXCEPT ![FilePath(t, WorldExt(tk.imageFileType))] = "full"] ]
    ELSE [ tk |-> Catch(tk, "wfClose"), d |-> d ]

(***************************************************************************)
(* Initial states: the page is loaded, the button has not been clicked.    *)
(***************************************************************************)
InitCommon ==
    /\ names = [ k \in AllTiles(bbox) \X (ImageExts \cup WorldExts) |-> FileName(k[1], k[2]) ]
    /\ hasPicker \in BOOLEAN
    /\ faultsLeft = MaxFaults
    /\ run = 0
    /\ pc = "idle"
    /\ lodIdx = 0
    /\ threwAt = "none"
    /\ dirs = {}
    /\ disk = EmptyDisk(bbox)
    /\ task = [ t \in AllTiles(bbox) |-> NewTask ]
    /\ pool = [ i \in LodIdx |-> NewPool ]
    /\ progress = "none"
    /\ totalTiles = 0
    /\ downloadedTiles = 0
    /\ totalLevelTiles = [ i \in LodIdx |-> 0 ]
    /\ downloadedLevelTiles = [ i \in LodIdx |-> 0 ]
    /\ requests = 0
    /\ runStartDisk = disk
    /\ calc = NoCall

Init ==
    /\ bbox \in Extents
    /\ env = [ fetch |-> "any", failAt |-> "any" ]
    /\ clicks = MaxRuns
    /\ InitCommon

InitPool ==
    /\ bbox \in PoolExtents
    /\ env \in Profiles
    /\ clicks = 1
    /\ InitCommon

(***************************************************************************)
(* downloadAllLevelsForArcGIS, up to the level loop.                       *)
(***************************************************************************)
\* a rejected await outside any try: the async handler ends with the error
Throw(at) ==
    /\ pc' = "threw"
    /\ threwAt' = at

\* an awaited operation of the handler fails
Fail(at) ==
    /\ faultsLeft > 0
    /\ faultsLeft' = faultsLeft - 1
    /\ Throw(at)

RECURSIVE TotalTilesExclusive(_, _)
\* mutant: the range is counted as if maxX and maxY were exclusive
TotalTilesExclusive(b, n) ==
    IF n = 0 THEN 0
    ELSE LET r == tileRangeForExtent(b, lods[n].resolution)
         IN  TotalTilesExclusive(b, n - 1) + (r.maxX - r.minX) * (r.maxY - r.minY)

RECURSIVE TotalTilesUpTo(_, _)
\* metadata.tileInfo.lods.reduce(...), over the first n lods
TotalTilesUpTo(b, n) ==
    IF n = 0 THEN 0
    ELSE LET r == tileRangeForExtent(b, lods[n].resolution)
         IN  TotalTilesUpTo(b, n - 1)
               + (r.maxX - r.minX + 1) * (r.maxY - r.minY + 1)

\* the order in which the nested loops call limit(...): x outer, y inner
SubmitOrder(b, i) ==
    LET r == tileRangeForExtent(b, lods[i].resolution)
        h == r.maxY - r.minY + 1
        n == (r.maxX - r.minX + 1) * h
    IN  [ k \in 1..n |-> << i, r.minX + ((k - 1) \div h), r.minY + ((k - 1) % h) >> ]

\* mutant: the capability check is skipped
PickerMissingIgnored == FALSE

\* !window.showDirectoryPicker
PickerMissing == ~hasPicker

\* the button is clicked
Click ==
    /\ pc \in { "idle", "done", "threw", "unsupported" }
    /\ clicks > 0
    /\ clicks' = clicks - 1
    /\ run' = run + 1
    /\ IF PickerMissing
       THEN /\ pc' = "unsupported"
            /\ UNCHANGED << lodIdx, threwAt, task, pool, progress, totalTiles,
                            downloadedTiles, totalLevelTiles, downloadedLevelTiles,
                            requests, runStartDisk >>
       ELSE /\ pc' = "picker"
            /\ lodIdx' = 0
            /\ threwAt' = "none"
            /\ task' = [ t \in AllTiles(bbox) |-> NewTask ]
            /\ pool' = [ i \in LodIdx |-> NewPool ]
            /\ progress' = "none"
            /\ totalTiles' = 0
            /\ downloadedTiles' = 0
            /\ totalLevelTiles' = [ i \in LodIdx |-> 0 ]
            /\ downloadedLevelTiles' = [ i \in LodIdx |-> 0 ]
            /\ requests' = 0
            /\ runStartDisk' = disk
    /\ UNCHANGED << calc, names, hasPicker, bbox, env, faultsLeft, dirs, disk >>

\* await window.showDirectoryPicker()
PickerSettles ==
    /\ pc = "picker"
    /\ \E ok \in BOOLEAN :
         IF ok THEN pc' = "alllayers" /\ UNCHANGED << threwAt, faultsLeft >>
         ELSE Fail("picker")
    /\ UNCHANGED << calc, names, hasPicker, bbox, env, clicks, run, lodIdx, dirs, disk, task,
                    pool, progress, totalTiles, downloadedTiles, totalLevelTiles,
                    downloadedLevelTiles, requests, runStartDisk >>

\* await dirHandle.getDirectoryHandle("_alllayers"), then totalTiles,
\* downloadedTiles and the first iteration's getDirectoryHandle call
AllLayersSettles ==
    /\ pc = "alllayers"
    /\ \E ok \in BOOLEAN :
         IF ok
         THEN /\ dirs' = dirs \cup { "_alllayers" }
              /\ progress' = "created"
              /\ totalTiles' = TotalTilesUpTo(bbox, Len(lods))
              /\ downloadedTiles' = 0
              /\ lodIdx' = 1
              /\ pc' = "ldir"
              /\ UNCHANGED << threwAt, faultsLeft >>
         ELSE /\ Fail("alllayers")
              /\ UNCHANGED << dirs, progress, totalTiles, downloadedTiles, lodIdx >>
    /\ UNCHANGED << calc, names, hasPicker, bbox, env, clicks, run, disk, task, pool,
                    totalLevelTiles, downloadedLevelTiles, requests, runStartDisk >>

\* await allLayers.getDirectoryHandle("L.."), then the level's counters, its
\* pool and the nested loops that call limit(...) for every tile
LdirSettles ==
    /\ pc = "ldir"
    /\ \E ok \in BOOLEAN :
         IF ok
         THEN /\ dirs' = dirs \cup { LdirName(lodIdx) }
              /\ totalLevelTiles' =
                     [totalLevelTiles EXCEPT ![lodIdx] = Len(SubmitOrder(bbox, lodIdx))]
              /\ downloadedLevelTiles' = [downloadedLevelTiles EXCEPT ![lodIdx] = 0]
              /\ pool' = [pool EXCEPT ![lodIdx] =
                             [ activeCount |-> 0,
                               queue       |-> SubmitOrder(bbox, lodIdx),
                               pending     |-> Len(SubmitOrder(bbox, lodIdx)) ]]
              /\ task' = [ t \in DOMAIN task |->
                             IF t \in LevelTiles(bbox, lodIdx)
                             THEN [task[t] EXCEPT !.pc = "queued"] ELSE task[t] ]
              /\ pc' = "tasks"
              /\ UNCHANGED << threwAt, faultsLeft >>
         ELSE /\ Fail("ldir")
              /\ UNCHANGED << dirs, totalLevelTiles, downloadedLevelTiles, pool, task >>
    /\ UNCHANGED << calc, names, hasPicker, bbox, env, clicks, run, lodIdx, disk, progress,
                    totalTiles, downloadedTiles, requests, runStartDisk >>

(***************************************************************************)
(* The level's pool (p-limit) and the tile tasks.                          *)
(***************************************************************************)
\* mutant: the pool admits every task
CanStartUnbounded(p) == TRUE

\* p-limit: activeCount < concurrency
CanStart(p) == p.activeCount < Concurrency

\* p-limit's deferred check, one per enqueue (a microtask): start the head of
\* the queue if activeCount < concurrency and the queue is not empty
PoolStart(l) ==
    /\ pool[l].pending > 0
    /\ IF CanStart(pool[l]) /\ pool[l].queue # << >>
       THEN /\ pool' = [pool EXCEPT ![l] = [ activeCount |-> @.activeCount + 1,
                                            queue       |-> Tail(@.queue),
                                            pending     |-> @.pending - 1 ]]
            /\ task' = [task EXCEPT ![Head(pool[l].queue)] = StartTask(@)]
       ELSE /\ pool' = [pool EXCEPT ![l].pending = @ - 1]
            /\ UNCHANGED task
    /\ UNCHANGED << calc, names, hasPicker, bbox, env, clicks, faultsLeft, run, pc, lodIdx, threwAt, dirs,
                    disk, progress, totalTiles, downloadedTiles, totalLevelTiles,
                    downloadedLevelTiles, requests, runStartDisk >>

\* mutant: the counter is written back from a value read before an await, so
\* that an increment made meanwhile is lost
PlusPlusStale(n) == IF n >= 1 THEN n ELSE n + 1

\* mutant: the counter is incremented at both ends of the sidecar step
PlusPlusTwice(n) == n + 2

\* downloadedTiles++, downloadedLevelTiles++: read and write in one step
PlusPlus(n) == n + 1

\* mutant: a task that ends gives its slot back but does not start the head of
\* the queue
AfterStepNoNext(t, r, failed) ==
    LET l == t[1]
        ended == r.tk.pc = "end"
        inc == IF r.tk.counted /\ ~task[t].counted THEN 1 ELSE 0
    IN  /\ pool[l].pending = 0
        /\ failed => faultsLeft > 0
        /\ faultsLeft' = IF failed THEN faultsLeft - 1 ELSE faultsLeft
        /\ disk' = r.d
        /\ task' = [task EXCEPT ![t] = r.tk]
        /\ pool' = IF ended THEN [pool EXCEPT ![l].activeCount = @ - 1] ELSE pool
        /\ downloadedTiles' = downloadedTiles + inc
        /\ downloadedLevelTiles' = [downloadedLevelTiles EXCEPT ![l] = @ + inc]
        /\ requests' = requests + (IF r.tk.fetched /\ ~task[t].fetched THEN 1 ELSE 0)
        /\ UNCHANGED << calc, names, hasPicker, bbox, env, clicks, run, pc, lodIdx, threwAt,
                        dirs, progress, totalTiles, totalLevelTiles, runStartDisk >>

\* the state after the awaited operation of task t settled with result r;
\* when the task ends, p-limit's next(): activeCount--, then run the head;
\* an awaited operation settles after the microtasks of the loop have run
AfterStep(t, r, failed) ==
    LET l == t[1]
        q == pool[l].queue
        ended == r.tk.pc = "end"
        inc == IF r.tk.counted /\ ~task[t].counted THEN 1 ELSE 0
    IN  /\ pool[l].pending = 0
        /\ failed => faultsLeft > 0
        /\ faultsLeft' = IF failed THEN faultsLeft - 1 ELSE faultsLeft
        /\ disk' = r.d
        /\ task' = IF ended /\ q # << >>
                   THEN [task EXCEPT ![t] = r.tk, ![Head(q)] = StartTask(@)]
                   ELSE [task EXCEPT ![t] = r.tk]
        /\ pool' = IF ~ended THEN pool
                   ELSE IF q # << >> THEN [pool EXCEPT ![l].queue = Tail(q)]
                   ELSE [pool EXCEPT ![l].activeCount = @ - 1]
        /\ downloadedTiles' = IF inc = 1 THEN PlusPlus(downloadedTiles)
                               ELSE downloadedTiles
        /\ downloadedLevelTiles' =
               IF inc = 1 THEN [downloadedLevelTiles EXCEPT ![l] = PlusPlus(@)]
               ELSE downloadedLevelTiles
        /\ requests' = requests + (IF r.tk.fetched /\ ~task[t].fetched THEN 1 ELSE 0)
        /\ UNCHANGED << calc, names, hasPicker, bbox, env, clicks, run, pc, lodIdx, threwAt,
                        dirs, progress, totalTiles, totalLevelTiles, runStartDisk >>

ProbePngSettles(t) ==
    /\ task[t].pc = "probePng"
    /\ AfterStep(t, ProbePngStep(t, task[t], disk), FALSE)

ProbeJpegSettles(t) ==
    /\ task[t].pc = "probeJpeg"
    /\ AfterStep(t, ProbeJpegStep(t, task[t], disk), FALSE)

FetchSettles(t) ==
    /\ task[t].pc = "fetch"
    /\ \E o \in FetchOutcomes : AfterStep(t, FetchStep(t, task[t], disk, o), o \in { "reject", "notok" })

ImgHandleSettles(t) ==
    /\ task[t].pc = "imgHandle"
    /\ \E ok \in BOOLEAN : AfterStep(t, ImgHandleStep(t, task[t], disk, ok), ~ok)

ImgWritableSettles(t) ==
    /\ task[t].pc = "imgWritable"
    /\ \E ok \in BOOLEAN : AfterStep(t, ImgWritableStep(t, task[t], disk, ok), ~ok)

PipeToSettles(t) ==
    /\ task[t].pc = "pipeTo"
    /\ \E ok \in BOOLEAN : AfterStep(t, PipeToStep(t, task[t], disk, ok), ~ok)

WfHandleSettles(t) ==
    /\ task[t].pc = "wfHandle"
    /\ \E ok \in BOOLEAN : AfterStep(t, WfHandleStep(t, task[t], disk, ok), ~ok)

WfWritableSettles(t) ==
    /\ task[t].pc = "wfWritable"
    /\ \E ok \in BOOLEAN : AfterStep(t, WfWritableStep(t, task[t], disk, ok), ~ok)

WfWriteSettles(t) ==
    /\ task[t].pc = "wfWrite"
    /\ \E ok \in BOOLEAN : AfterStep(t, WfWriteStep(t, task[t], disk, ok), ~ok)

WfCloseSettles(t) ==
    /\ task[t].pc = "wfClose"
    /\ \E ok \in BOOLEAN : AfterStep(t, WfCloseStep(t, task[t], disk, ok), ~ok)

\* one await of the body under profile prof
BodyStep(t, tk, d, prof) ==
    LET ok == prof.failAt # tk.pc
    IN  CASE tk.pc = "probePng"    -> ProbePngStep(t, tk, d)
          [] tk.pc = "probeJpeg"   -> ProbeJpegStep(t, tk, d)
          [] tk.pc = "fetch"       -> FetchStep(t, tk, d, prof.fetch)
          [] tk.pc = "imgHandle"   -> ImgHandleStep(t, tk, d, ok)
          [] tk.pc = "imgWritable" -> ImgWritableStep(t, tk, d, ok)
          [] tk.pc = "pipeTo"      -> PipeToStep(t, tk, d, ok)
          [] tk.pc = "wfHandle"    -> WfHandleStep(t, tk, d, ok)
          [] tk.pc = "wfWritable"  -> WfWritableStep(t, tk, d, ok)
          [] tk.pc = "wfWrite"     -> WfWriteStep(t, tk, d, ok)
          [] tk.pc = "wfClose"     -> WfCloseStep(t, tk, d, ok)

RECURSIVE RunBody(_, _, _, _)
\* the body of a started task from its first await to its end (the result of
\* each step is bound once and handed to the next)
RunBody(t, tk, d, prof) ==
    IF tk.pc = "end" THEN [ tk |-> tk, d |-> d ]
    ELSE CHOOSE res \in { RunBody(t, r.tk, r.d, prof) :
                            r \in { BodyStep(t, tk, d, prof) } } : TRUE

\* SpecPool: a started task stays in flight until its whole body has run
TaskRuns(t) ==
    /\ task[t].pc = "probePng"
    /\ \E r \in { RunBody(t, task[t], disk, env) } : AfterStep(t, r, FALSE)

(***************************************************************************)
(* The barrier and the level's convert.sh.                                 *)
(***************************************************************************)
\* mutant: the barrier opens with the first fulfilled task (Promise.any)
PromiseAnyFulfilled(S) == \E t \in S : task[t].status = "fulfilled"

\* mutant: the tasks are not awaited
PromiseNotAwaited(S) == TRUE

\* Promise.all(tasks) fulfils when every promise of the level is fulfilled
PromiseAllFulfilled(S) == \A t \in S : task[t].status = "fulfilled"

\* Promise.all(tasks) rejects as soon as one promise is rejected
PromiseAllRejected(S) == \E t \in S : task[t].status = "rejected"

\* await Promise.all(tasks), then the getFileHandle("convert.sh") call
AllSettled ==
    /\ pc = "tasks"
    /\ IF PromiseAllRejected(LevelTiles(bbox, lodIdx))
       THEN Throw("tasks")
       ELSE /\ PromiseAllFulfilled(LevelTiles(bbox, lodIdx))
            /\ pc' = "scriptHandle"
            /\ UNCHANGED threwAt
    /\ UNCHANGED << calc, names, hasPicker, bbox, env, clicks, faultsLeft, run, lodIdx, dirs, disk, task,
                    pool, progress, totalTiles, downloadedTiles, totalLevelTiles,
                    downloadedLevelTiles, requests, runStartDisk >>

\* await Ldir.getFileHandle("convert.sh", { create: true })
ScriptHandleSettles ==
    /\ pc = "scriptHandle"
    /\ \E ok \in BOOLEAN :
         IF ok THEN /\ disk' = GetFileHandleCreate(disk, ScriptPath(lodIdx))
                    /\ pc' = "scriptWritable"
                    /\ UNCHANGED << threwAt, faultsLeft >>
         ELSE Fail("scriptHandle") /\ UNCHANGED disk
    /\ UNCHANGED << calc, names, hasPicker, bbox, env, clicks, run, lodIdx, dirs, task, pool,
                    progress, totalTiles, downloadedTiles, totalLevelTiles,
                    downloadedLevelTiles, requests, runStartDisk >>

\* await scriptHandle.createWritable()
ScriptWritableSettles ==
    /\ pc = "scriptWritable"
    /\ \E ok \in BOOLEAN :
         IF ok THEN pc' = "scriptWrite" /\ UNCHANGED << threwAt, faultsLeft >>
         ELSE Fail("scriptWritable")
    /\ UNCHANGED << calc, names, hasPicker, bbox, env, clicks, run, lodIdx, dirs, disk, task,
                    pool, progress, totalTiles, downloadedTiles, totalLevelTiles,
                    downloadedLevelTiles, requests, runStartDisk >>

\* await scriptWritable.write(scriptContent)
ScriptWriteSettles ==
    /\ pc = "scriptWrite"
    /\ \E ok \in BOOLEAN :
         IF ok THEN pc' = "scriptClose" /\ UNCHANGED << threwAt, faultsLeft >>
         ELSE Fail("scriptWrite")
    /\ UNCHANGED << calc, names, hasPicker, bbox, env, clicks, run, lodIdx, dirs, disk, task,
                    pool, progress, totalTiles, downloadedTiles, totalLevelTiles,
                    downloadedLevelTiles, requests, runStartDisk >>

\* await scriptWritable.close(), then the next iteration of the level loop
ScriptCloseSettles ==
    /\ pc = "scriptClose"
    /\ \E ok \in BOOLEAN :
         IF ok
         THEN /\ disk' = [disk EXCEPT ![ScriptPath(lodIdx)] = "full"]
              /\ IF lodIdx < Len(lods)
                 THEN lodIdx' = lodIdx + 1 /\ pc' = "ldir"
                 ELSE pc' = "done" /\ UNCHANGED lodIdx
              /\ UNCHANGED << threwAt, faultsLeft >>
         ELSE Fail("scriptClose") /\ UNCHANGED << disk, lodIdx >>
    /\ UNCHANGED << calc, names, hasPicker, bbox, env, clicks, run, dirs, task, pool,
                    progress, totalTiles, downloadedTiles, totalLevelTiles,
                    downloadedLevelTiles, requests, runStartDisk >>

(***************************************************************************)
(* Specifications.                                                         *)
(***************************************************************************)
Orchestrator ==
    \/ Click
    \/ PickerSettles
    \/ AllLayersSettles
    \/ LdirSettles
    \/ AllSettled
    \/ ScriptHandleSettles
    \/ ScriptWritableSettles
    \/ ScriptWriteSettles
    \/ ScriptCloseSettles

TaskStep(t) ==
    \/ ProbePngSettles(t)
    \/ ProbeJpegSettles(t)
    \/ FetchSettles(t)
    \/ ImgHandleSettles(t)
    \/ ImgWritableSettles(t)
    \/ PipeToSettles(t)
    \/ WfHandleSettles(t)
    \/ WfWritableSettles(t)
    \/ WfWriteSettles(t)
    \/ WfCloseSettles(t)

Next ==
    \/ Orchestrator
    \/ \E l \in LodIdx : PoolStart(l)
    \/ \E t \in DOMAIN task : TaskStep(t)

Spec == Init /\ [][Next]_vars

\* tile bodies run as one step each: the pool sees only starts and ends
NextPool ==
    \/ Orchestrator
    \/ \E l \in LodIdx : PoolStart(l)
    \/ \E t \in DOMAIN task : TaskRuns(t)

SpecPool == InitPool /\ [][NextPool]_vars

(***************************************************************************)
(* Properties.                                                             *)
(***************************************************************************)
Tiles == DOMAIN task

InFlightPcs == TaskPcs \ { "unsubmitted", "queued", "end" }

\* the tasks that have started and not yet settled, of all levels
InFlight == { t \in Tiles : task[t].pc \in InFlightPcs }

ImagePaths(t) == { FilePath(t, e) : e \in ImageExts }
TilePaths(t) == { FilePath(t, e) : e \in ImageExts \cup WorldExts }

HasImage(d, t) == \E p \in ImagePaths(t) : d[p] # "none"

\* the task of t ended without a usable image because of the fetch: a response
\* that is not ok, or an error between fetch(url) and the end of pipeTo
FetchFailed(t) ==
    /\ task[t].pc = "end"
    /\ \/ task[t].resp = "notok"
       \/ task[t].failedAt \in { "fetch", "imgHandle", "imgWritable", "pipeTo" }

ScriptPcs == { "scriptHandle", "scriptWritable", "scriptWrite", "scriptClose" }

\* C1: at most 10 tile tasks, of all levels together, have started and not yet
\* settled; a queued task starts only when fewer than 10 are in flight or in
\* the step in which a running task settles.
C1_PoolBound ==
    /\ [](Cardinality(InFlight) <= Concurrency)
    /\ [][ \A t \in Tiles :
             (task[t].pc = "queued" /\ task'[t].pc \in InFlightPcs)
               => \/ Cardinality(InFlight) < Concurrency
                  \/ \E u \in InFlight : task'[u].pc = "end" ]_vars

\* ten tasks are in flight and the eleventh waits in the queue
C1_Witness ==
    /\ Cardinality(InFlight) = Concurrency
    /\ \E t \in Tiles : task[t].pc = "queued"

\* C2: levels are never interleaved: while a task of a level is unsubmitted,
\* queued or in flight, no task of a later level has been submitted.
C2_LevelsSequential ==
    \A a, b \in Tiles :
        (a[1] < b[1] /\ task[b].pc # "unsubmitted") => task[a].pc = "end"

\* the second level runs after a first level in which a task failed
C2_Witness ==
    \E a, b \in Tiles :
        /\ a[1] < b[1]
        /\ task[b].pc \in InFlightPcs
        /\ task[a].failedAt # "none"

\* C3: while the level's convert.sh is being created and written, every task
\* of that level has settled.
C3_ScriptAfterTasks ==
    pc \in ScriptPcs => \A t \in LevelTiles(bbox, lodIdx) : task[t].pc = "end"

\* the script of a level is written after one of the level's tasks failed
C3_Witness ==
    /\ pc = "scriptWritable"
    /\ disk[ScriptPath(lodIdx)] # "none"
    /\ \E t \in LevelTiles(bbox, lodIdx) : task[t].failedAt # "none"

\* C4 (as claimed): after the task of a tile whose fetch was answered with a
\* response that is not ok, no file of the tile exists that did not exist
\* when the run started.
C4_NoFileOnNotOk ==
    \A t \in Tiles :
        (task[t].pc = "end" /\ task[t].resp = "notok")
          => \A p \in TilePaths(t) : disk[p] = "none" \/ runStartDisk[p] # "none"

\* C5: a tile that has an image file is not fetched, and a run over a
\* directory in which every tile has an image issues no request and leaves
\* the set of image files as it was.
C5_IdempotentResume ==
    /\ \A t \in Tiles : task[t].fetched => ~HasImage(runStartDisk, t)
    /\ (\A t \in Tiles : HasImage(runStartDisk, t))
         => /\ requests = 0
            /\ \A t \in Tiles : \A p \in ImagePaths(t) :
                 (disk[p] = "none") <=> (runStartDisk[p] = "none")

\* a second run over a fully materialized directory has ended
C5_Witness ==
    /\ run = 2
    /\ pc = "done"
    /\ \A t \in Tiles : HasImage(runStartDisk, t) /\ task[t].counted

\* C6 (as claimed): after a tile task that failed in the fetch, no image
\* file of the tile exists, so that the next run's probes fetch it again.
C6_FailedTileRetried ==
    \A t \in Tiles : FetchFailed(t) => ~HasImage(disk, t)

\* C7 (as claimed): a tile whose fetch rejected or whose body stream failed
\* ends with no image file and no world file.
C7_NoArtifactOnTransportError ==
    \A t \in Tiles :
        (task[t].pc = "end" /\ task[t].failedAt \in { "fetch", "pipeTo" })
          => \A p \in TilePaths(t) : disk[p] = "none"

\* C8: no tile has both its .png and its .jpeg file (the runs start on an
\* empty directory and on the directories earlier runs left).
C8_AtMostOneImage ==
    \A t \in Tiles :
        ~(disk[FilePath(t, "png")] # "none" /\ disk[FilePath(t, "jpeg")] # "none")

\* a later run probes a level that holds a png tile and a jpeg tile
C8_Witness ==
    /\ run = 2
    /\ \E t, u \in Tiles :
          /\ t[1] = u[1]
          /\ disk[FilePath(t, "png")] = "full"
          /\ disk[FilePath(u, "jpeg")] = "full"
          /\ task[t].pngExists
          /\ task[u].jpegExists

\* a task of the current level can take a step, or the barrier can open
LevelCanAdvance ==
    \/ \E t \in LevelTiles(bbox, lodIdx) : ENABLED TaskStep(t)
    \/ ENABLED PoolStart(lodIdx)
    \/ ENABLED AllSettled

\* C9: an error inside a tile task does not leave the task: no promise of a
\* task is rejected and the handler never ends on Promise.all; while the
\* handler waits at the barrier the level can advance; and a run that is
\* done has run the task of every tile of every level to its end.
C9_TileFailureIsolated ==
    /\ \A t \in Tiles : task[t].status # "rejected"
    /\ pc = "threw" => threwAt # "tasks"
    /\ pc = "tasks" => LevelCanAdvance
    /\ pc = "done" => \A t \in Tiles : task[t].pc = "end"

\* a run is done although the task of its first level failed
C9_Witness ==
    /\ pc = "done"
    /\ \E t \in Tiles : t[1] = 1 /\ task[t].failedAt # "none"
    /\ \A u \in Tiles : u[1] > 1 => task[u].counted

\* C10 (as claimed): once the level loop has been entered, no failing
\* operation ends the handler.
C10_OnlyFatalClassesStop ==
    lodIdx >= 1 => pc # "threw"

\* C11: where window.showDirectoryPicker is missing a click ends the handler
\* before any work: no directory and no file is created, no fetch is issued,
\* no task is submitted, and the progress counters are neither created nor
\* changed.
C11_NoPickerNoWork ==
    ~hasPicker =>
        /\ pc \in { "idle", "unsupported" }
        /\ dirs = {}
        /\ disk = EmptyDisk(bbox)
        /\ requests = 0
        /\ \A t \in Tiles : task[t] = NewTask
        /\ \A l \in LodIdx : pool[l] = NewPool
        /\ progress = "none"
        /\ totalTiles = 0 /\ downloadedTiles = 0
        /\ \A l \in LodIdx : totalLevelTiles[l] = 0 /\ downloadedLevelTiles[l] = 0

\* the button was clicked twice on a page without the picker
C11_Witness ==
    /\ ~hasPicker
    /\ pc = "unsupported"
    /\ run = 2

\* the tile tasks for which limit(...) has been called in the current run
Submitted == { t \in Tiles : task[t].pc # "unsubmitted" }

RECURSIVE SumUpTo(_, _)
\* f[1] + ... + f[n]
SumUpTo(f, n) == IF n = 0 THEN 0 ELSE SumUpTo(f, n - 1) + f[n]

\* (maxX - minX + 1) * (maxY - minY + 1) of every level of the descriptor
LevelCounts ==
    [ i \in LodIdx |->
        LET r == tileRangeForExtent(bbox, lods[i].resolution)
        IN  (r.maxX - r.minX + 1) * (r.maxY - r.minY + 1) ]

RangeMaxCoord == 3
\* columns and rows of the calls of toArcGISNames: -NameMaxIndex..NameMaxIndex,
\* and the indices of NameFarIndices
NameMaxIndex == 17

\* grids of the calls: integer origins around 0, tiles 1 or 2 pixels wide
CallGrids ==
    { [ origin |-> o, tileSize |-> ts ] :
        o \in { << 0, 0 >>, << 1, -1 >>, << -1, 1 >> }, ts \in 1..2 }

CallResolutions == 1..2

\* <<xmin, ymin, xmax, ymax>> with xmin <= xmax and ymin <= ymax
CallExtents ==
    { e \in (-RangeMaxCoord..RangeMaxCoord) \X (-RangeMaxCoord..RangeMaxCoord)
              \X (-RangeMaxCoord..RangeMaxCoord) \X (-RangeMaxCoord..RangeMaxCoord) :
        e[1] <= e[3] /\ e[2] <= e[4] }

BoundedRangeCalls ==
    { [ grid |-> g, extent |-> e, resolution |-> r ] :
        g \in CallGrids, e \in CallExtents, r \in CallResolutions }

\* origin (0, 0), tiles of 256 pixels, resolution 1, extent (100, 100, 600, 600)
ExampleCall ==
    [ grid       |-> [ origin |-> << 0, 0 >>, tileSize |-> 256 ],
      extent     |-> << 100, 100, 600, 600 >>,
      resolution |-> 1 ]

RangeCalls == BoundedRangeCalls \cup { ExampleCall }

\* levels of a descriptor: one and two decimal digits
NameLevels == { 0, 9, 10, 23 }

NameFarIndices == { 255, 256, 4095, 65536 }

NameIndices == (-NameMaxIndex..NameMaxIndex) \cup NameFarIndices

NameCalls == NameLevels \X NameIndices \X NameIndices

\* every variable of the click handler
runVars == << names, hasPicker, bbox, env, clicks, faultsLeft, run, pc, lodIdx, threwAt,
              dirs, disk, task, pool, progress, totalTiles, downloadedTiles,
              totalLevelTiles, downloadedLevelTiles, requests, runStartDisk >>

\* the page is loaded and the button is never clicked; each behaviour makes
\* one call
InitPure ==
    /\ bbox \in Extents
    /\ env = [ fetch |-> "any", failAt |-> "any" ]
    /\ clicks = 0
    /\ InitCommon
    /\ hasPicker

\* tileRangeForExtent(extent, resolution) on a grid
CallTileRange ==
    /\ calc = NoCall
    /\ \E c \in RangeCalls :
         calc' = [ op         |-> "tileRangeForExtent",
                   grid       |-> c.grid,
                   extent     |-> c.extent,
                   resolution |-> c.resolution,
                   out        |-> tileRangeOnGrid(c.grid, c.extent, c.resolution) ]
    /\ UNCHANGED runVars

\* toArcGISNames(z, x, y)
CallToArcGISNames ==
    /\ calc = NoCall
    /\ \E c \in NameCalls :
         calc' = [ op  |-> "toArcGISNames",
                   z   |-> c[1],
                   x   |-> c[2],
                   y   |-> c[3],
                   out |-> toArcGISNames(c[1], c[2], c[3]) ]
    /\ UNCHANGED runVars

NextPure ==
    \/ CallTileRange
    \/ CallToArcGISNames

SpecPure == InitPure /\ [][NextPure]_vars

\* the last direct call was tileRangeForExtent with the arguments of c
IsRangeCall(c) ==
    /\ calc.op = "tileRangeForExtent"
    /\ calc.grid = c.grid
    /\ calc.extent = c.extent
    /\ calc.resolution = c.resolution

\* C13 (as claimed): for origin (0, 0), tile size 256, resolution 1 and extent
\* (100, 100, 600, 600) tileRangeForExtent returns minX = 0, maxX = 2,
\* minY = 0, maxY = 2.
C13_ExampleAsClaimed ==
    IsRangeCall(ExampleCall)
      => calc.out = [ minX |-> 0, maxX |-> 2, minY |-> 0, maxY |-> 2 ]

\* C13 (amended): for origin (0, 0), tile size 256, resolution 1 and extent
\* (100, 100, 600, 600) tileRangeForExtent returns minX = 0, maxX = 2,
\* minY = -3, maxY = -1: rows are counted downwards from originY, and the
\* extent lies above it.
C13_ExampleRange ==
    IsRangeCall(ExampleCall)
      => calc.out = [ minX |-> 0, maxX |-> 2, minY |-> -3, maxY |-> -1 ]

\* tileRangeForExtent has been called with the arguments of the example
C13_Witness == IsRangeCall(ExampleCall) /\ calc.out.maxX = 2

\* columns and rows around every range a bounded call can return
TileWindow == -(RangeMaxCoord + 3)..(RangeMaxCoord + 3)

\* ground width of a tile of the call
TileWidth(c) == c.resolution * c.grid.tileSize

\* the closed footprint of tile (x, y), [west, east] x [south, north], and the
\* extent have a point in common
ClosedFootprintMeets(c, x, y) ==
    LET w     == TileWidth(c)
        west  == c.grid.origin[1] + x * w
        north == c.grid.origin[2] - y * w
    IN  /\ west <= c.extent[3] /\ c.extent[1] <= west + w
        /\ north - w <= c.extent[4] /\ c.extent[2] <= north

\* the same for the footprint without its east and south edges,
\* [west, east) x (south, north]
HalfOpenFootprintMeets(c, x, y) ==
    LET w     == TileWidth(c)
        west  == c.grid.origin[1] + x * w
        north == c.grid.origin[2] - y * w
    IN  /\ west <= c.extent[3] /\ c.extent[1] < west + w
        /\ north - w < c.extent[4] /\ c.extent[2] <= north

InRange(r, x, y) == r.minX <= x /\ x <= r.maxX /\ r.minY <= y /\ y <= r.maxY

\* the last direct call was tileRangeForExtent with bounded arguments
IsBoundedRangeCall ==
    /\ calc.op = "tileRangeForExtent"
    /\ calc.grid \in CallGrids
    /\ calc.extent \in CallExtents
    /\ calc.resolution \in CallResolutions

\* C14 (as claimed): for xmin <= xmax, ymin <= ymax and a positive resolution
\* the range has minX <= maxX and minY <= maxY, contains every tile whose
\* footprint (the closed square of ground the tile covers) intersects the
\* extent, and contains no tile whose footprint is disjoint from the extent.
C14_RangeCoversAsClaimed ==
    IsBoundedRangeCall
      => /\ calc.out.minX <= calc.out.maxX
         /\ calc.out.minY <= calc.out.maxY
         /\ \A x, y \in TileWindow :
              /\ ClosedFootprintMeets(calc, x, y) => InRange(calc.out, x, y)
              /\ InRange(calc.out, x, y) => ClosedFootprintMeets(calc, x, y)

\* C14 (amended): for xmin <= xmax, ymin <= ymax and a positive resolution
\* the range has minX <= maxX and minY <= maxY and contains exactly the tiles
\* whose footprint without its east and south edges meets the extent: no tile
\* in it is disjoint from the extent, and the only tiles left out whose closed
\* footprint intersects the extent are those that touch it with their east
\* or south edge alone.
C14_RangeCovers ==
    IsBoundedRangeCall
      => /\ calc.out.minX <= calc.out.maxX
         /\ calc.out.minY <= calc.out.maxY
         /\ \A x, y \in TileWindow :
              /\ InRange(calc.out, x, y) <=> HalfOpenFootprintMeets(calc, x, y)
              /\ InRange(calc.out, x, y) => ClosedFootprintMeets(calc, x, y)

\* a call whose extent has all four edges on tile boundaries and spans more
\* than one column and more than one row of tiles two units wide
C14_Witness ==
    /\ IsBoundedRangeCall
    /\ TileWidth(calc) = 2
    /\ \A k \in 1..2 : (calc.extent[k] - calc.grid.origin[k]) % 2 = 0
    /\ \A k \in 1..2 : (calc.extent[k + 2] - calc.grid.origin[k]) % 2 = 0
    /\ calc.out.minX < calc.out.maxX
    /\ calc.out.minY < calc.out.maxY

DecimalDigits == { "0", "1", "2", "3", "4", "5", "6", "7", "8", "9" }

UpperHexDigits == DecimalDigits \cup { "A", "B", "C", "D", "E", "F" }

\* s is the letter followed by exactly n characters of digits
LetterAndDigits(s, letter, n, digits) ==
    /\ Len(s) = n + 1
    /\ s[1] = letter
    /\ \A i \in 2..Len(s) : s[i] \in digits

\* C15 (as claimed): for every level, column and row (negative indices
\* included) toArcGISNames yields L followed by exactly 2 decimal digits, R
\* followed by exactly 8 upper-case hexadecimal digits (the row) and C
\* followed by exactly 8 upper-case hexadecimal digits (the column), and
\* distinct coordinates yield distinct triples.
C15_NamesWellFormed ==
    calc.op = "toArcGISNames"
      => /\ LetterAndDigits(calc.out.L, "L", 2, DecimalDigits)
         /\ LetterAndDigits(calc.out.R, "R", 8, UpperHexDigits)
         /\ LetterAndDigits(calc.out.C, "C", 8, UpperHexDigits)
         /\ \A c \in NameCalls :
              c # << calc.z, calc.x, calc.y >>
                => toArcGISNames(c[1], c[2], c[3]) # calc.out

\* the image format the sidecar step of t pairs its world file with: png
\* when a png file of the tile exists, else jpeg
PairedFormat(d, t) == IF d[FilePath(t, "png")] # "none" THEN "png" ELSE "jpeg"

\* no file operation of a tile task of the current run has failed
NoFileOperationFailed ==
    \A t \in Tiles : task[t].failedAt \in { "none", "fetch" }

\* C16 (as claimed): a task that went through its sidecar step with an image
\* of its tile on disk has written the world file paired with that image's
\* format (png when both exist); and after a run without a failing file
\* operation every image has its paired world file and every world file has
\* its paired image.
C16_WorldFilePaired ==
    /\ \A t \in Tiles :
         (task[t].counted /\ HasImage(disk, t))
           => disk[FilePath(t, WorldExt(PairedFormat(disk, t)))] = "full"
    /\ (pc = "done" /\ NoFileOperationFailed)
         => \A t \in Tiles : \A e \in ImageExts :
              (disk[FilePath(t, e)] # "none") <=> (disk[FilePath(t, WorldExt(e))] # "none")

\* the tile tasks of the current run that have executed their completion step
\* (downloadedTiles++, downloadedLevelTiles++, setProgress)
Completed == { t \in Tiles : task[t].counted }

\* C17: no update of the counters is lost: downloadedTiles is the number of
\* tile tasks of the run that have executed their completion step, and the
\* downloadedLevelTiles of every level entered so far, the current one
\* included, is the number of that level's tasks that have done so.
C17_NoLostUpdate ==
    /\ downloadedTiles = Cardinality(Completed)
    /\ \A l \in LodIdx :
         downloadedLevelTiles[l] = Cardinality({ t \in Completed : t[1] = l })

\* both tasks of the last level have completed, after the task of the first
\* level, while the handler still waits at the barrier
C17_Witness ==
    /\ lodIdx = Len(lods)
    /\ downloadedLevelTiles[lodIdx] = 2
    /\ downloadedTiles = 3
    /\ pc = "tasks"

\* the fraction downloadedTiles / totalTiles handed to setProgress lies in
\* [0, 1] (totalTiles > 0 once the counters exist)
FractionInUnitInterval ==
    progress = "created"
      => /\ totalTiles > 0
         /\ 0 <= downloadedTiles
         /\ downloadedTiles <= totalTiles

C20_CountsOnlyMaterialized ==
    /\ \A t \in Completed : HasImage(disk, t)
    /\ \A t \in Tiles : task[t].resp = "notok" => ~task[t].counted
    /\ pc = "done" => downloadedTiles = Cardinality({ t \in Tiles : HasImage(disk, t) })

(***************************************************************************)
(* The run under fairness: every awaited operation settles, and the        *)
(* operations on the level directory and on convert.sh succeed.            *)
(***************************************************************************)
\* getDirectoryHandle of the level, or an operation on its convert.sh, rejects
LevelOperationFails ==
    /\ pc \in { "ldir" } \cup ScriptPcs
    /\ pc' = "threw"

NextPoolLive == NextPool /\ ~LevelOperationFails

\* a step of a run that has been started: the deferred checks of the pool, the
\* settling of an awaited operation, the continuation of the handler
HandlerStep ==
    /\ pc \notin { "idle", "done", "threw", "unsupported" }
    /\ NextPoolLive

\* the event loop runs every microtask and every continuation of a settled
\* operation; the clicks are left to the user
SpecPoolLive == InitPool /\ [][NextPoolLive]_vars /\ WF_vars(HandlerStep)

\* C18: if every awaited operation of the tile tasks settles and the
\* operations on the level directories and scripts succeed, then a run that
\* has entered its first level ends after its last level, and when it ends
\* every tile task submitted for any level has started and settled and the
\* convert.sh of every level has been written.
C18_RunTerminates ==
    /\ (pc = "ldir" /\ lodIdx = 1) ~> (pc = "done" /\ lodIdx = Len(lods))
    /\ [](pc = "done"
            => /\ \A t \in Tiles : task[t].pc = "end"
               /\ \A i \in LodIdx : disk[ScriptPath(i)] = "full")

\* a run whose last level had more tasks than the pool admits, and in which
\* every tile task failed, has ended with every task settled and every script
\* written
C18_Witness ==
    /\ pc = "done"
    /\ Cardinality(LevelTiles(bbox, Len(lods))) > Concurrency
    /\ \A t \in Tiles : task[t].pc = "end" /\ task[t].failedAt # "none"
    /\ \A i \in LodIdx : disk[ScriptPath(i)] = "full"

====
